---- MODULE Spec2Model ----
(***************************************************************************)
(* Session lifecycle of the WhatsApp pairing-code server: the registry of   *)
(* active connections, the pairing-code request, the connection.update      *)
(* handler, the credential delivery and the cleanup paths.                  *)
(*                                                                          *)
(* The repository holds two revisions of server.js.  Spec and LiveSpec are  *)
(* src/unnamed/part_000, the revision with the pairing-code promise, its    *)
(* 30 second deadline and the credential delivery.  ServerSpec and          *)
(* ServerLiveSpec are src/server.js, which waits 3 seconds and then awaits  *)
(* the pairing-code request in the request handler.  Validation, status and *)
(* disconnect are the same statements in both and are shared.               *)
(*                                                                          *)
(* Every POST /api/pair call with a valid number owns one slot: the slot    *)
(* holds the position of the request handler, the socket it creates and     *)
(* the closure variables of setupConnectionHandlers for that socket.        *)
(***************************************************************************)
EXTENDS Naturals, Sequences, FiniteSets

VARIABLES
    activeConnections,  \* Map: normalized number -> slot of the stored conn (NoConn = no entry)
    sessions,           \* sessions/<number> on disk: does it exist, whose creds were saved in it
    slot,               \* per POST /api/pair call: handler position, socket, closure variables
    ncalls,             \* number of slots in use
    logoutPending,      \* per socket: DELETE /api/disconnect handlers awaiting conn.logout()
    resp                \* the last response of a handler that answers without a socket of its own

vars == <<activeConnections, sessions, slot, ncalls, logoutPending, resp>>

--------------------------------------------------------------------------
(* Bounds and program constants *)

MinDigits == 10

MaxConns == 2

MaxPending == 2

MaxCount == 2

Slots == 1..MaxConns

NoConn == 0

--------------------------------------------------------------------------
(* Request inputs: the `number` of a request, a sequence of characters *)

Digits == {"0", "1", "2", "3", "4", "5", "6", "7", "8", "9"}

IsDigit(ch) == ch \in Digits

NormalizeKeepAll(number) == number

\* number.replace(/\D/g, "")
Normalize(number) == SelectSeq(number, IsDigit)

NumA == <<"2", "3", "4", "8", "1", "0", "9", "8", "6", "0">>

NumAFmt == <<"+", "2", "3", "4", " ", "8", "1", "0", "-", "9", "8", "6", "0">>

NumB == <<"2", "3", "4", "7", "0", "0", "0", "0", "0", "1">>

NumShort == <<"1", "2", "3", "-", "4", "5", "6", "-", "7", "8", "9">>

NumMissing == <<>>

Numbers == {NumA, NumAFmt, NumB, NumShort, NumMissing}

\* Every string a handler can use as a key of the Map or as a directory name
Keys == Numbers \cup {SelectSeq(n, IsDigit) : n \in Numbers}

--------------------------------------------------------------------------
(* DisconnectReason status codes carried by a close event *)

TerminalStatus == {"loggedOut", "forbidden", "connectionReplaced"}

CloseStatus == TerminalStatus \cup {"connectionLost", "undefined"}

IsTerminalNever(statusCode) == FALSE

IsTerminalAlways(statusCode) == TRUE

IsTerminalLoggedOutOnly(statusCode) == statusCode = "loggedOut"

IsTerminal(statusCode) == statusCode \in TerminalStatus

--------------------------------------------------------------------------
(* State after construction *)

FreshSlot ==
    [pc |-> "unused", num |-> <<>>, ws |-> "none", appClosed |-> FALSE,
     ended |-> FALSE, pairingCodeRequested |-> FALSE, credsSent |-> FALSE,
     registered |-> FALSE, req |-> "none", nReq |-> 0, promise |-> "none",
     response |-> "none", nResp |-> 0, delivery |-> "none",
     nSched |-> 0, nDeliver |-> 0, nOpen |-> 0, prior |-> "never"]

\* sessions/<number> is absent, or exists (freshly made by mkdirSync)
NoDir == FALSE

EmptyDir == TRUE

Init ==
    /\ activeConnections = [n \in Keys |-> NoConn]
    /\ sessions = [n \in Keys |-> NoDir]
    /\ slot = [k \in Slots |-> FreshSlot]
    /\ ncalls = 0
    /\ logoutPending = [k \in Slots |-> 0]
    /\ resp = "none"

Created(k) == slot[k].ws # "none"

\* The socket can still emit events: the server has not closed it and the
\* platform has not ended it with a terminal status.
Live(k) == Created(k) /\ ~slot[k].appClosed /\ ~slot[k].ended

--------------------------------------------------------------------------
(* Cleanup steps shared by the handlers *)

\* if (fs.existsSync(dir)) fs.rmSync(dir, { recursive: true, force: true })
RmSessionDir(dirs, n) == [dirs EXCEPT ![n] = NoDir]

KeepConnection(conns, n) == conns

\* activeConnections.delete(n)
DeleteConnection(conns, n) == [conns EXCEPT ![n] = NoConn]

WsKeepOpen(s) == s

\* conn.ws.close()
WsClose(s) == [s EXCEPT !.ws = "closed", !.appClosed = TRUE]

HasConnectionAlways(conns, n) == TRUE

\* activeConnections.get(n) is truthy
HasConnection(conns, n) == conns[n] # NoConn

--------------------------------------------------------------------------
(* POST /api/pair: validation, session directory (up to the first await) *)

\* History kept for the properties: what the earlier POST /api/pair calls for
\* the number n have left when a new call for n starts: nothing ("never"), a
\* session that was cleaned up ("cleaned"), or one that was not ("active")
PriorOf(n) ==
    LET earlier == {j \in 1..ncalls : slot[j].num = n} IN
    IF earlier = {} THEN "never"
    ELSE IF /\ activeConnections[n] = NoConn
            /\ sessions[n] = NoDir
            /\ \A j \in earlier : slot[j].appClosed \/ slot[j].ended
    THEN "cleaned"
    ELSE "active"

NumberMissing(number) == number = <<>>

TooShort(number) == Len(Normalize(number)) < MinDigits

Pair(number) ==
    IF NumberMissing(number)
    THEN /\ resp' = "number_required"
         /\ UNCHANGED <<activeConnections, sessions, slot, ncalls, logoutPending>>
    ELSE IF TooShort(number)
    THEN /\ resp' = "invalid_number"
         /\ UNCHANGED <<activeConnections, sessions, slot, ncalls, logoutPending>>
    ELSE /\ ncalls < MaxConns
         /\ ncalls' = ncalls + 1
         /\ sessions' = [sessions EXCEPT ![Normalize(number)] = EmptyDir]
         /\ slot' = [slot EXCEPT ![ncalls + 1] =
                        [FreshSlot EXCEPT !.pc = "awaitAuth", !.num = Normalize(number),
                                          !.prior = PriorOf(Normalize(number))]]
         /\ UNCHANGED <<activeConnections, logoutPending, resp>>

(* useMultiFileAuthState or fetchLatestBaileysVersion throws: the catch block
   runs with conn undefined, so it only answers 500 *)
PairInitFail(k) ==
    /\ slot[k].pc = "awaitAuth"
    /\ slot' = [slot EXCEPT ![k] =
                   [@ EXCEPT !.pc = "done", !.response = "failed", !.nResp = @ + 1]]
    /\ UNCHANGED <<activeConnections, sessions, ncalls, logoutPending, resp>>

(* The two awaited set-up calls return; makeWASocket, activeConnections.set,
   the promise with its deadline, setupConnectionHandlers; then the handler
   awaits the promise.  No statement here looks at the session directory. *)
PairCreate(k) ==
    /\ slot[k].pc = "awaitAuth"
    /\ activeConnections' = [activeConnections EXCEPT ![slot[k].num] = k]
    /\ slot' = [slot EXCEPT ![k] =
                   [@ EXCEPT !.pc = "awaitCode", !.ws = "connecting",
                             !.promise = "pending"]]
    /\ UNCHANGED <<sessions, ncalls, logoutPending, resp>>

--------------------------------------------------------------------------
(* The catch block of POST /api/pair with conn set: rollback, then 500 *)

CatchNoCleanup(k, s, reason) ==
    /\ slot' = [slot EXCEPT ![k] =
                   [s EXCEPT !.pc = "done", !.response = reason, !.nResp = @ + 1]]
    /\ UNCHANGED <<sessions, activeConnections>>

CatchCleanup(k, s, reason) ==
    /\ sessions' = RmSessionDir(sessions, s.num)
    /\ activeConnections' = DeleteConnection(activeConnections, s.num)
    /\ slot' = [slot EXCEPT ![k] =
                   [WsClose(s) EXCEPT !.pc = "done", !.response = reason, !.nResp = @ + 1]]

(* conn.requestPairingCode settles; pairingCodeCallback resolves the promise
   unless the deadline has rejected it; the awaiting handler then answers *)
RequestSettles(k, outcome) ==
    /\ slot[k].req = "pending"
    /\ outcome = "code" => Live(k)
    /\ LET s == [slot[k] EXCEPT !.req = outcome] IN
       IF s.promise # "pending"
       THEN /\ slot' = [slot EXCEPT ![k] = s]
            /\ UNCHANGED <<sessions, activeConnections>>
       ELSE IF outcome = "code"
       THEN /\ slot' = [slot EXCEPT ![k] =
                           [s EXCEPT !.promise = "code", !.pc = "done",
                                     !.response = "code", !.nResp = @ + 1]]
            /\ UNCHANGED <<sessions, activeConnections>>
       ELSE CatchCleanup(k, [s EXCEPT !.promise = "error"], "pairing_failed")
    /\ UNCHANGED <<ncalls, logoutPending, resp>>

DeadlineAfterCode(s) == s.promise \in {"pending", "code"}

\* setTimeout(() => reject(new Error('Pairing code request timeout')), 30000)
DeadlineArmed(s) == s.promise = "pending"

(* The 30 second timer of the promise fires while the promise is pending:
   reject() settles it and the awaiting handler goes to its catch block.
   (Fired after the promise has settled, reject() does nothing.) *)
Deadline(k) ==
    /\ DeadlineArmed(slot[k])
    /\ CatchCleanup(k, [slot[k] EXCEPT !.promise = "timeout"], "pairing_timeout")
    /\ UNCHANGED <<ncalls, logoutPending, resp>>

--------------------------------------------------------------------------
(* conn.ev.on('connection.update', ...) of setupConnectionHandlers *)

Updates ==
    {[connection |-> "connecting", qr |-> FALSE, statusCode |-> "undefined"],
     [connection |-> "undefined", qr |-> TRUE, statusCode |-> "undefined"],
     [connection |-> "open", qr |-> FALSE, statusCode |-> "undefined"]}
    \cup {[connection |-> "close", qr |-> FALSE, statusCode |-> st] : st \in CloseStatus}

\* What the socket can emit: 'connecting' at start or when it reconnects after
\* a close, a QR once the websocket is up, 'open' once a pairing code was
\* obtained, 'close' while it is not closed.
CanEmit(k, u) ==
    /\ Live(k)
    /\ u.connection = "connecting" => slot[k].ws \in {"connecting", "closed"}
    /\ u.qr => slot[k].ws = "open"
    /\ u.connection = "open" => (slot[k].ws = "open" /\ slot[k].req = "code")
    /\ u.connection = "close" => slot[k].ws # "closed"

\* The socket's own state when it emits u (conn.ws.readyState, creds.registered);
\* nOpen counts its 'open' updates
SocketAfter(s, u) ==
    IF u.connection = "connecting" THEN [s EXCEPT !.ws = "connecting"]
    ELSE IF u.connection = "close"
    THEN [s EXCEPT !.ws = "closed", !.ended = u.statusCode \in TerminalStatus]
    ELSE IF u.connection = "open" THEN [s EXCEPT !.registered = TRUE, !.nOpen = @ + 1]
    ELSE s

AnySignal(u) == TRUE

ReadySignal(u) == u.connection = "connecting" \/ u.qr

ShouldRequestNoLatch(s, u) == ReadySignal(u) /\ ~s.registered

\* (connection === 'connecting' || qr) && !pairingCodeRequested && !creds.registered
ShouldRequest(s, u) ==
    ReadySignal(u) /\ ~s.pairingCodeRequested /\ ~s.registered

\* pairingCodeRequested = true; conn.requestPairingCode(normalizedNumber)
AfterReady(s, u) ==
    IF ShouldRequest(s, u)
    THEN [s EXCEPT !.pairingCodeRequested = TRUE, !.nReq = @ + 1, !.req = "pending"]
    ELSE s

ShouldSendAlways(s) == TRUE

\* if (!credsSent)
ShouldSendCreds(s) == ~s.credsSent

\* credsSent = true; setTimeout(sendCredsToUser, 2000)
AfterOpen(s) ==
    IF ShouldSendCreds(s)
    THEN [s EXCEPT !.credsSent = TRUE, !.delivery = "scheduled", !.nSched = @ + 1]
    ELSE s

ConnectionUpdate(k, u) ==
    /\ CanEmit(k, u)
    /\ slot[k].nReq < MaxCount
    /\ slot[k].nSched < MaxCount
    /\ u.connection = "open" => slot[k].nOpen < MaxCount
    /\ LET s1 == AfterReady(SocketAfter(slot[k], u), u)
           s2 == IF u.connection = "open" THEN AfterOpen(s1) ELSE s1
       IN  slot' = [slot EXCEPT ![k] = s2]
    /\ IF u.connection = "close" /\ IsTerminal(u.statusCode)
       THEN /\ sessions' = RmSessionDir(sessions, slot[k].num)
            /\ activeConnections' = DeleteConnection(activeConnections, slot[k].num)
       ELSE UNCHANGED <<sessions, activeConnections>>
    /\ UNCHANGED <<ncalls, logoutPending, resp>>

\* The websocket of the socket connects: conn.ws.readyState becomes 1
WsOpen(k) ==
    /\ Live(k)
    /\ slot[k].ws = "connecting"
    /\ slot' = [slot EXCEPT ![k] = [@ EXCEPT !.ws = "open"]]
    /\ UNCHANGED <<activeConnections, sessions, ncalls, logoutPending, resp>>

\* The 2 second timer of the 'open' branch fires: sendCredsToUser zips the
\* directory and sends it; a failure is caught and logged
SendCreds(k, ok) ==
    /\ slot[k].delivery = "scheduled"
    /\ slot[k].nDeliver < MaxCount
    /\ ok => Live(k)
    /\ slot' = [slot EXCEPT ![k] =
                   [@ EXCEPT !.delivery = IF ok THEN "sent" ELSE "failed",
                             !.nDeliver = @ + 1]]
    /\ UNCHANGED <<activeConnections, sessions, ncalls, logoutPending, resp>>

--------------------------------------------------------------------------
(* GET /api/status/:number and DELETE /api/disconnect/:number *)

RECURSIVE InFlight(_, _)
InFlight(pending, k) == IF k = 0 THEN 0 ELSE pending[k] + InFlight(pending, k - 1)

Status(number) ==
    LET n == Normalize(number) IN
    IF ~HasConnection(activeConnections, n) THEN "not_found"
    ELSE IF slot[activeConnections[n]].ws = "open" THEN "open"
    ELSE "closed"

\* DELETE /api/disconnect up to `await connection.conn.logout()`
Disconnect(number) ==
    LET n == Normalize(number)
        c == activeConnections[n]
    IN  IF ~HasConnection(activeConnections, n)
        THEN /\ resp' = "no_active"
             /\ UNCHANGED <<activeConnections, sessions, slot, ncalls, logoutPending>>
        ELSE IF c \notin Slots
        THEN \* connection.conn.logout() on a missing entry throws inside the try: 500
             /\ resp' = "disconnect_error"
             /\ UNCHANGED <<activeConnections, sessions, slot, ncalls, logoutPending>>
        ELSE /\ InFlight(logoutPending, MaxConns) < MaxPending
             /\ logoutPending' = [logoutPending EXCEPT ![c] = @ + 1]
             /\ UNCHANGED <<activeConnections, sessions, slot, ncalls, resp>>

\* conn.logout() settles: on success ws.close(), activeConnections.delete,
\* rmSync, 200; on failure the catch answers 500 and nothing else is done
LogoutSettles(k, ok) ==
    /\ logoutPending[k] > 0
    /\ logoutPending' = [logoutPending EXCEPT ![k] = @ - 1]
    /\ IF ok
       THEN /\ slot' = [slot EXCEPT ![k] = WsClose(@)]
            /\ activeConnections' = DeleteConnection(activeConnections, slot[k].num)
            /\ sessions' = RmSessionDir(sessions, slot[k].num)
            /\ resp' = "disconnected"
       ELSE /\ resp' = "disconnect_error"
            /\ UNCHANGED <<slot, activeConnections, sessions>>
    /\ UNCHANGED ncalls

--------------------------------------------------------------------------

Next ==
    \/ \E number \in Numbers : Pair(number)
    \/ \E k \in Slots : PairInitFail(k)
    \/ \E k \in Slots : PairCreate(k)
    \/ \E k \in Slots, outcome \in {"code", "error"} : RequestSettles(k, outcome)
    \/ \E k \in Slots : Deadline(k)
    \/ \E k \in Slots, u \in Updates : ConnectionUpdate(k, u)
    \/ \E k \in Slots : WsOpen(k)
    \/ \E k \in Slots, ok \in BOOLEAN : SendCreds(k, ok)
    \/ \E number \in Numbers : Disconnect(number)
    \/ \E k \in Slots, ok \in BOOLEAN : LogoutSettles(k, ok)

Spec == Init /\ [][Next]_vars

\* The event loop runs every timer that is due and resumes every handler whose
\* awaited file-system or HTTP call has returned; nothing is assumed of the Transport.
Fairness ==
    \A k \in Slots :
        /\ WF_vars(Deadline(k))
        /\ WF_vars(PairCreate(k) \/ PairInitFail(k))

LiveSpec == Spec /\ Fairness

--------------------------------------------------------------------------
(* src/server.js: POST /api/pair after validation, and its event handler *)

(* makeWASocket, activeConnections.set, setupConnectionHandlers; then the
   handler awaits the 3 second timer *)
SrvPairCreate(k) ==
    /\ slot[k].pc = "awaitAuth"
    /\ activeConnections' = [activeConnections EXCEPT ![slot[k].num] = k]
    /\ slot' = [slot EXCEPT ![k] = [@ EXCEPT !.pc = "settling", !.ws = "connecting"]]
    /\ UNCHANGED <<sessions, ncalls, logoutPending, resp>>

(* The 3 second timer fires: the handler calls sock.requestPairingCode and
   awaits it, whatever the socket has emitted meanwhile *)
SrvSettle(k) ==
    /\ slot[k].pc = "settling"
    /\ slot' = [slot EXCEPT ![k] =
                   [@ EXCEPT !.pc = "awaitCode", !.req = "pending", !.nReq = @ + 1]]
    /\ UNCHANGED <<activeConnections, sessions, ncalls, logoutPending, resp>>

(* The catch block with conn set evaluates `number`, which is declared by
   `const` inside the try block: a ReferenceError leaves the catch block
   before the cleanup and before res.status(500), and the handler's promise
   rejects with nothing to handle it *)
SrvCatchThrows(s) == [s EXCEPT !.pc = "threw"]

(* sock.requestPairingCode settles: with a code the handler answers 200,
   with an error it goes to its catch block *)
SrvRequestSettles(k, outcome) ==
    /\ slot[k].pc = "awaitCode"
    /\ slot[k].req = "pending"
    /\ outcome = "code" => Live(k)
    /\ LET s == [slot[k] EXCEPT !.req = outcome] IN
       slot' = [slot EXCEPT ![k] =
                   IF outcome = "code"
                   THEN [s EXCEPT !.pc = "done", !.response = "code", !.nResp = @ + 1]
                   ELSE SrvCatchThrows(s)]
    /\ UNCHANGED <<activeConnections, sessions, ncalls, logoutPending, resp>>

(* conn.ev.on('connection.update', ...): only the close branch with a
   terminal status changes anything *)
SrvConnectionUpdate(k, u) ==
    /\ CanEmit(k, u)
    /\ u.connection = "open" => slot[k].nOpen < MaxCount
    /\ slot' = [slot EXCEPT ![k] = SocketAfter(@, u)]
    /\ IF u.connection = "close" /\ IsTerminal(u.statusCode)
       THEN /\ sessions' = RmSessionDir(sessions, slot[k].num)
            /\ activeConnections' = DeleteConnection(activeConnections, slot[k].num)
       ELSE UNCHANGED <<sessions, activeConnections>>
    /\ UNCHANGED <<ncalls, logoutPending, resp>>

SrvNext ==
    \/ \E number \in Numbers : Pair(number)
    \/ \E k \in Slots : PairInitFail(k)
    \/ \E k \in Slots : SrvPairCreate(k)
    \/ \E k \in Slots : SrvSettle(k)
    \/ \E k \in Slots, outcome \in {"code", "error"} : SrvRequestSettles(k, outcome)
    \/ \E k \in Slots, u \in Updates : SrvConnectionUpdate(k, u)
    \/ \E k \in Slots : WsOpen(k)
    \/ \E number \in Numbers : Disconnect(number)
    \/ \E k \in Slots, ok \in BOOLEAN : LogoutSettles(k, ok)

ServerSpec == Init /\ [][SrvNext]_vars

\* As Fairness: the 3 second timer fires and the awaited set-up calls return;
\* nothing is assumed of the Transport.
SrvFairness ==
    \A k \in Slots :
        /\ WF_vars(SrvSettle(k))
        /\ WF_vars(SrvPairCreate(k) \/ PairInitFail(k))

ServerLiveSpec == ServerSpec /\ SrvFairness

--------------------------------------------------------------------------
(* Properties *)

\* The number of digits of a request's number
DigitCount(number) == Cardinality({i \in 1..Len(number) : number[i] \in Digits})

\* The identity a request's number stands for: its digits, in order
DigitsOf(number) == SelectSeq(number, IsDigit)

\* The step on which the POST /api/pair call of slot k answers with `reason`
Answers(k, reason) == slot[k].response = "none" /\ slot'[k].response = reason

\* The rollback of slot k's session has been done in the next state
RolledBack(k) ==
    /\ slot'[k].appClosed
    /\ slot'[k].ws = "closed"
    /\ sessions'[slot[k].num] = NoDir
    /\ activeConnections'[slot[k].num] = NoConn

(* C1, as the spec states it: when the deadline expires before the Transport
   answers, the call returns a timeout error and nothing is cleaned up: the
   registry, the credential directories and the Transport are as before. *)
C1_TimeoutLeavesSession ==
    [][\A k \in Slots :
          Answers(k, "pairing_timeout") =>
              /\ activeConnections' = activeConnections
              /\ sessions' = sessions
              /\ slot'[k].ws = slot[k].ws
              /\ slot'[k].appClosed = slot[k].appClosed]_vars

(* C1, amended: when the deadline expires before the Transport answers, the
   call returns a timeout error and its session is rolled back as after a
   failed pairing: the Transport is closed, the credential directory of the
   identity is deleted and the registry entry of the identity is removed. *)
C1_TimeoutRollsBack ==
    [][\A k \in Slots :
          (slot[k].promise = "pending" /\ slot'[k].promise = "timeout") =>
              /\ slot'[k].response = "pairing_timeout"
              /\ slot'[k].pc = "done"
              /\ RolledBack(k)]_vars

\* A call has timed out while its pairing-code request was never answered
C1_Witness ==
    \E k \in Slots :
        /\ slot[k].response = "pairing_timeout"
        /\ slot[k].req = "pending"
        /\ slot[k].appClosed
        /\ activeConnections[slot[k].num] = NoConn

(* C2: in every reachable state, a Transport that has been created and is
   not closed is the one the registry holds for its identity (so each
   identity has at most one such Transport). *)
C2_NoLeakedTransport ==
    \A k \in Slots :
        (Created(k) /\ slot[k].ws # "closed") => activeConnections[slot[k].num] = k

(* C6: a close event with a terminal status removes the registry entry of
   the socket's identity and deletes its credential directory, and Status for
   that identity then reports no session. *)
C6_TerminalCloseCleansUp ==
    [][\A k \in Slots : \A u \in Updates :
          (u.connection = "close" /\ u.statusCode \in TerminalStatus
                                  /\ ConnectionUpdate(k, u)) =>
              /\ activeConnections'[slot[k].num] = NoConn
              /\ sessions'[slot[k].num] = NoDir
              /\ \A number \in Numbers :
                    DigitsOf(number) = slot[k].num => Status(number)' = "not_found"]_vars

\* A socket that had opened was ended by a terminal close; entry and directory are gone
C6_Witness ==
    \E k \in Slots :
        /\ slot[k].ended
        /\ slot[k].credsSent
        /\ slot[k].response = "code"
        /\ activeConnections[slot[k].num] = NoConn
        /\ sessions[slot[k].num] = NoDir
        /\ Status(slot[k].num) = "not_found"

(* C7: a POST /api/pair whose number has fewer than MinDigits digits is
   answered with a validation error and changes nothing: no slot (socket) is
   created, no directory is made or removed, the registry is unchanged. *)
C7_InvalidRejected ==
    [][\A number \in Numbers :
          (DigitCount(number) < 10 /\ Pair(number)) =>
              /\ resp' \in {"number_required", "invalid_number"}
              /\ UNCHANGED <<activeConnections, sessions, slot, ncalls, logoutPending>>]_vars

\* A too short number was rejected while a session of another number is registered
C7_Witness ==
    /\ resp = "invalid_number"
    /\ \E n \in Keys : activeConnections[n] # NoConn /\ sessions[n] = EmptyDir

(* C8: DELETE /api/disconnect for an identity with no registry entry answers
   "no active connection" and changes nothing: no logout is started, no
   socket is closed, no directory is deleted, the registry is unchanged. *)
C8_DisconnectAbsent ==
    [][\A number \in Numbers :
          (activeConnections[DigitsOf(number)] = NoConn /\ Disconnect(number)) =>
              /\ resp' = "no_active"
              /\ UNCHANGED <<activeConnections, sessions, slot, ncalls, logoutPending>>]_vars

\* "No active connection" was answered while another identity has a live session
C8_Witness ==
    /\ resp = "no_active"
    /\ \E k \in Slots : Live(k) /\ activeConnections[slot[k].num] = k
                                /\ sessions[slot[k].num] = EmptyDir

(* C10: when conn.requestPairingCode fails while the call is waiting, the
   call answers with the failure and its session is rolled back: the
   Transport is closed, the credential directory is deleted and the registry
   entry is removed. *)
C10_FailureRollsBack ==
    [][\A k \in Slots :
          (slot[k].req = "pending" /\ slot'[k].req = "error"
                                   /\ slot[k].promise = "pending") =>
              /\ slot'[k].response = "pairing_failed"
              /\ slot'[k].pc = "done"
              /\ RolledBack(k)]_vars

\* A call was answered with the failure of its pairing-code request
C10_Witness ==
    \E k \in Slots :
        /\ slot[k].response = "pairing_failed"
        /\ slot[k].req = "error"
        /\ slot[k].appClosed
        /\ sessions[slot[k].num] = NoDir

(* C9: every POST /api/pair call with a valid number is eventually answered,
   and answered once, whatever the Transport does: also when it never answers
   the pairing-code request and never emits a readiness event. *)
C9_CallReturns ==
    /\ \A k \in Slots : (slot[k].pc # "unused") ~> (slot[k].pc = "done" /\ slot[k].nResp = 1)
    /\ [](\A k \in Slots : slot[k].nResp <= 1)

(* C3: for every socket, conn.requestPairingCode is invoked at most once,
   and exactly once as soon as one readiness signal ('connecting' or a QR)
   has been handled, however many follow; the pairingCodeRequested latch is
   never reset. *)
C3_RequestedOnce ==
    [][\A k \in Slots :
          /\ slot'[k].nReq <= 1
          /\ slot[k].pairingCodeRequested =>
                 (slot'[k].pairingCodeRequested /\ slot'[k].nReq = slot[k].nReq)
          /\ \A u \in Updates :
                 (ReadySignal(u) /\ ConnectionUpdate(k, u)) =>
                     (slot'[k].nReq = 1 /\ slot'[k].pairingCodeRequested)]_vars

\* A socket that had opened has reconnected: it has emitted 'connecting' again
\* after the readiness signal that triggered its one request
C3_Witness ==
    \E k \in Slots :
        /\ slot[k].nOpen >= 1
        /\ slot[k].ws = "connecting"
        /\ slot[k].pairingCodeRequested
        /\ slot[k].nReq = 1

(* C4: for every socket, the credential delivery is scheduled at most once
   and attempted at most once, however many 'open' updates arrive; a failed
   delivery stays failed. *)
C4_DeliveredOnce ==
    \A k \in Slots :
        /\ slot[k].nSched <= 1
        /\ slot[k].nDeliver <= 1
        /\ slot[k].nOpen >= 1 => (slot[k].credsSent /\ slot[k].nSched = 1)
        /\ slot[k].delivery \in {"sent", "failed"} => slot[k].nDeliver = 1

\* A socket has emitted 'open' twice and its one delivery has failed
C4_Witness ==
    \E k \in Slots :
        /\ slot[k].nOpen = 2
        /\ slot[k].delivery = "failed"
        /\ slot[k].nDeliver = 1

(* C5: once the POST /api/pair call of a session has answered with a code,
   Status for its identity never reports "not found" until that session's
   socket emits a terminal close or DELETE /api/disconnect is served for the
   identity: the entry is there when the call answers, and an entry that
   holds the session is only removed by one of those two. *)
C5_StatusFoundUntilClosed ==
    [][\A k \in Slots :
          /\ Answers(k, "code") => Status(slot[k].num)' # "not_found"
          /\ (slot[k].response = "code" /\ activeConnections[slot[k].num] = k
                                        /\ Status(slot[k].num)' = "not_found") =>
                 \/ ~slot[k].ended /\ slot'[k].ended
                 \/ \E j \in Slots : logoutPending'[j] < logoutPending[j]]_vars

(* The step completes a cleanup of slot k's session: its socket emits a
   terminal close, its POST /api/pair call rolls back, or a
   DELETE /api/disconnect that holds its conn finishes after logout *)
TerminalClosed(k) == ~slot[k].ended /\ slot'[k].ended

RollsBack(k) ==
    slot[k].response = "none" /\ slot'[k].response \in {"pairing_failed", "pairing_timeout"}

Disconnected(k) == logoutPending'[k] < logoutPending[k] /\ resp' = "disconnected"

CleanupDone(k) == TerminalClosed(k) \/ RollsBack(k) \/ Disconnected(k)

(* C11: every cleanup of a session, first or repeated and in whatever order
   the triggers (disconnect, terminal close, rollback) interleave, ends in the
   same state: no registry entry and no credential directory for the
   identity, the Transport closed, every other identity untouched; run on a
   session that is already cleaned up it changes nothing, and a disconnect
   whose logout resolved answers success also then. *)
C11_CleanupIdempotent ==
    [][\A k \in Slots :
          CleanupDone(k) =>
              /\ activeConnections'[slot[k].num] = NoConn
              /\ sessions'[slot[k].num] = NoDir
              /\ slot'[k].ws = "closed"
              /\ \A n \in Keys \ {slot[k].num} :
                    /\ activeConnections'[n] = activeConnections[n]
                    /\ sessions'[n] = sessions[n]
              /\ (activeConnections[slot[k].num] = NoConn /\ sessions[slot[k].num] = NoDir) =>
                    (activeConnections' = activeConnections /\ sessions' = sessions)]_vars

\* On the only session: two disconnects were in flight, the socket emitted a
\* terminal close, the call rolled back on its deadline, and one disconnect
\* has finished with success while the other still awaits its logout
C11_Witness ==
    /\ ncalls = 1
    /\ slot[1].ended
    /\ slot[1].response = "pairing_timeout"
    /\ logoutPending[1] = 1
    /\ resp = "disconnected"
    /\ activeConnections[slot[1].num] = NoConn
    /\ sessions[slot[1].num] = NoDir

(* C12: the cleanup steps are best-effort one by one: when a disconnect
   handler comes back from logout, whether logout resolved or rejected, and
   when a POST /api/pair call rolls back, the registry entry of the identity
   is removed and its credential directory is deleted. *)
C12_CleanupBestEffort ==
    [][\A k \in Slots :
          (logoutPending'[k] < logoutPending[k] \/ RollsBack(k)) =>
              /\ activeConnections'[slot[k].num] = NoConn
              /\ sessions'[slot[k].num] = NoDir]_vars

\* The step is one of session j: of its POST /api/pair call, of its socket,
\* or of a disconnect handler that holds its conn
StepOf(j) == slot'[j] # slot[j] \/ logoutPending'[j] # logoutPending[j]

(* C13: a POST /api/pair for an identity whose earlier session was cleaned
   up runs as for an identity never seen: nothing the earlier session still
   does (its call, its socket, a disconnect that holds its conn) changes the
   registry entry or the credential directory of the identity afterwards. *)
C13_ReRegisterAsFresh ==
    [][\A k \in Slots : \A j \in Slots :
          (/\ j < k
           /\ slot[k].prior = "cleaned"
           /\ slot[j].num = slot[k].num
           /\ StepOf(j)) =>
              /\ activeConnections'[slot[k].num] = activeConnections[slot[k].num]
              /\ sessions'[slot[k].num] = sessions[slot[k].num]]_vars

(* C14: a close event whose status is not terminal (a missing status
   included) triggers no cleanup: the registry, the credential directories and
   the latches of the socket's handler are as before. *)
C14_NonTerminalCloseKeeps ==
    [][\A k \in Slots : \A st \in CloseStatus \ TerminalStatus :
          (/\ slot'[k].ws # slot[k].ws
           /\ ConnectionUpdate(k, [connection |-> "close", qr |-> FALSE, statusCode |-> st])) =>
              /\ activeConnections' = activeConnections
              /\ sessions' = sessions
              /\ slot'[k].pairingCodeRequested = slot[k].pairingCodeRequested
              /\ slot'[k].credsSent = slot[k].credsSent
              /\ ~slot'[k].ended]_vars

\* A socket that had opened was closed by a non-terminal close: its entry, its
\* directory and its latches are still there
C14_Witness ==
    \E k \in Slots :
        /\ slot[k].ws = "closed"
        /\ ~slot[k].appClosed
        /\ ~slot[k].ended
        /\ slot[k].pairingCodeRequested
        /\ slot[k].credsSent
        /\ activeConnections[slot[k].num] = k
        /\ sessions[slot[k].num] = EmptyDir

(* C15: the pairing wait is decided by the first of the three events: the
   call answers on the step of that event, with that event's outcome, while
   its promise is still pending; once it has answered, its response never
   changes, and the events that come later (the request settling after the
   deadline, the timer firing after the request settled) change neither the
   registry nor the credential directories. *)
C15_FirstOutcomeWins ==
    [][\A k \in Slots :
          /\ Answers(k, "code") =>
                (slot[k].promise = "pending" /\ slot[k].req = "pending" /\ slot'[k].req = "code")
          /\ Answers(k, "pairing_failed") =>
                (slot[k].promise = "pending" /\ slot[k].req = "pending" /\ slot'[k].req = "error")
          /\ Answers(k, "pairing_timeout") =>
                (slot[k].promise = "pending" /\ slot'[k].req = slot[k].req)
          /\ slot[k].response # "none" =>
                /\ slot'[k].response = slot[k].response
                /\ slot'[k].nResp = slot[k].nResp
                /\ slot'[k].promise = slot[k].promise
                /\ slot'[k].req # slot[k].req =>
                      (activeConnections' = activeConnections /\ sessions' = sessions)]_vars

\* A call was answered by its deadline, and its pairing-code request failed
\* afterwards: the answer is still the timeout, given once
C15_Witness ==
    \E k \in Slots :
        /\ slot[k].response = "pairing_timeout"
        /\ slot[k].promise = "timeout"
        /\ slot[k].req = "error"
        /\ slot[k].nResp = 1

(* C16, as the spec states it: every created session issues its pairing-code
   request, also when its Transport emits no 'connecting' and no QR event. *)
C16_RequestAfterSettle ==
    \A k \in Slots : Created(k) ~> (slot[k].nReq >= 1)

(* C16, amended: the pairing-code request of a session is issued only by the
   handling of a 'connecting' or QR update, while the latch is clear and the
   credentials are not registered; nothing else issues it, and the count of
   requests follows the latch. *)
C16_RequestOnReadiness ==
    [][\A k \in Slots :
          /\ slot'[k].nReq # slot[k].nReq =>
                /\ ~slot[k].pairingCodeRequested
                /\ ~slot[k].registered
                /\ \/ ConnectionUpdate(k, [connection |-> "connecting", qr |-> FALSE,
                                            statusCode |-> "undefined"])
                   \/ ConnectionUpdate(k, [connection |-> "undefined", qr |-> TRUE,
                                            statusCode |-> "undefined"])
          /\ slot'[k].pairingCodeRequested <=> slot'[k].nReq = 1]_vars

\* A session whose socket was created and handled no readiness signal: no
\* request was issued and its call ended on the deadline
C16_Witness ==
    \E k \in Slots :
        /\ slot[k].pc = "done"
        /\ slot[k].response = "pairing_timeout"
        /\ Created(k)
        /\ slot[k].nReq = 0
        /\ ~slot[k].pairingCodeRequested

(* C17, as the spec states it: in every reachable state no session held in
   the registry is closed, so Status never reports a closed session for a
   registered identity. *)
C17_NoClosedInRegistry ==
    \A k \in Slots :
        activeConnections[slot[k].num] = k =>
            (slot[k].ws # "closed" /\ Status(slot[k].num) # "closed")

(* C17, amended: in every reachable state no session held in the registry
   has had a terminal close; a session closed in any other way stays in the
   registry, and Status reports "closed" exactly for a registered identity
   whose websocket is not open. *)
C17_NoTerminalClosedInRegistry ==
    /\ \A k \in Slots : activeConnections[slot[k].num] = k => ~slot[k].ended
    /\ \A number \in Numbers :
          Status(number) = "closed" <=>
              \E k \in Slots : /\ activeConnections[DigitsOf(number)] = k
                                /\ slot[k].ws # "open"

\* A session that answered with a code was closed with a non-terminal status:
\* it is still registered and Status reports it as closed
C17_Witness ==
    \E k \in Slots :
        /\ activeConnections[slot[k].num] = k
        /\ slot[k].response = "code"
        /\ slot[k].ws = "closed"
        /\ ~slot[k].ended
        /\ ~slot[k].appClosed
        /\ Status(slot[k].num) = "closed"

(* C18: a terminal close emitted by a socket that is not the one the
   registry holds for its identity (it was replaced by a later POST /api/pair,
   or its session is already cleaned up) changes neither the registry nor the
   credential directories. *)
C18_StaleCloseKeepsCurrent ==
    [][\A j \in Slots :
          (TerminalClosed(j) /\ activeConnections[slot[j].num] # j) =>
              (activeConnections' = activeConnections /\ sessions' = sessions)]_vars

(* C19: when a later POST /api/pair call for the same identity has started
   before an earlier one rolls back (pairing failure or deadline), the
   rollback leaves the later call's session alone: its registry entry, the
   credential directory and its Transport are unchanged. *)
C19_RollbackOnlyOwn ==
    [][\A j \in Slots : \A k \in Slots :
          (/\ j < k
           /\ slot[k].pc # "unused"
           /\ slot[k].num = slot[j].num
           /\ RollsBack(j)) =>
              /\ activeConnections[slot[k].num] = k => activeConnections'[slot[k].num] = k
              /\ sessions'[slot[k].num] = sessions[slot[k].num]
              /\ slot'[k] = slot[k]]_vars

(* C20: in every reachable state, an identity that has a registry entry has
   a credential directory. *)
C20_EntryHasDirectory ==
    \A n \in Keys : activeConnections[n] # NoConn => sessions[n] = EmptyDir

(* C21: the delivery scheduled by an 'open' update is not attempted for a
   session that was cleaned up before the delay elapsed: on every step that
   attempts a delivery, the session's socket has had no terminal close and
   has not been closed by a disconnect or a rollback. *)
C21_NoDeliveryAfterCleanup ==
    [][\A k \in Slots :
          slot'[k].nDeliver > slot[k].nDeliver =>
              (~slot[k].ended /\ ~slot[k].appClosed)]_vars

====
